---- MODULE Spec2Model ----
(***************************************************************************)
(* A model of dbdemos_tracker_updater.py: the Detector, the Dependency     *)
(* Patcher, the Initialization Patcher and the Orchestrator.               *)
(*                                                                         *)
(* Text is a sequence of tokens.  A token is an opaque run of characters   *)
(* ("import", "dbdemos_tracker", "[", ...); the three whitespace           *)
(* characters are the tokens "sp", "tab" and "nl", and "xff" is a byte     *)
(* that is not valid UTF-8.  Substring tests, split/join, strip and the    *)
(* regular expressions of the code are computed on these sequences.        *)
(*                                                                         *)
(* A file name is a sequence of name tokens (<<"main", ".py">>), a path a  *)
(* sequence of names below the repository root, and a workspace a function *)
(* from the paths of its files to their contents.                          *)
(***************************************************************************)
EXTENDS Integers, Sequences, FiniteSets, TLC

VARIABLES
    fs,            \* the workspace of the repository being processed
    trace,         \* the patch functions applied so far: op, pre, post, ret, exc
    repo_urls,     \* process_repositories' argument
    idx,           \* position of the for loop in repo_urls (1-based)
    pc,            \* position in process_repositories / process_single_repository
    cloned,        \* the workspace as the clone left it
    has_tracker,   \* process_single_repository's local
    changes_made,  \* process_single_repository's local
    committed,     \* the workspace's repository holds the new commit
    exc,           \* an exception is propagating
    calls,         \* the steps invoked for the current repository, in order
    attempted,     \* the URLs handed to process_single_repository, in order
    workspaces,    \* the temporary directories that exist
    pushed,        \* positions of repo_urls whose feature branch reached the remote
    prs,           \* positions of repo_urls for which a pull request was created
    failed,        \* positions of repo_urls whose failure process_repositories logged
    main           \* main's run: the environment, the command line, how it ended

vars == <<fs, trace, repo_urls, idx, pc, cloned, has_tracker, changes_made, committed, exc,
          calls, attempted, workspaces, pushed, prs, failed, main>>

orchVars == <<repo_urls, idx, pc, cloned, has_tracker, changes_made, committed, exc,
              calls, attempted, workspaces, pushed, prs, failed, main>>

\* an option the command line does not give
None == "None"

\* the functions of the class are driven without main
NotInMain ==
    [environ |-> FALSE,
     argv |-> [repositories |-> <<>>, from_file |-> None, from_org |-> None],
     outcome |-> "not called"]

----------------------------------------------------------------------------
(* Bounds *)

MaxApply == 2
MaxRepos == 3

----------------------------------------------------------------------------
(* Strings *)

IsSpace(t) == t \in {"sp", "tab", "nl"}

Range(s) == {s[i] : i \in 1..Len(s)}

MinOf(S) == CHOOSE x \in S : \A y \in S : x <= y

StartsWith(s, p) == Len(p) <= Len(s) /\ SubSeq(s, 1, Len(p)) = p

Contains(s, p) == \E i \in 1..(Len(s) - Len(p) + 1) : SubSeq(s, i, i + Len(p) - 1) = p

RECURSIVE LStrip(_)
LStrip(s) == IF Len(s) > 0 /\ IsSpace(s[1]) THEN LStrip(Tail(s)) ELSE s

RECURSIVE RStrip(_)
RStrip(s) ==
    IF Len(s) > 0 /\ IsSpace(s[Len(s)]) THEN RStrip(SubSeq(s, 1, Len(s) - 1)) ELSE s

Strip(s) == RStrip(LStrip(s))

\* content.split('\n')
RECURSIVE SplitLines(_)
SplitLines(s) ==
    LET nls == {i \in 1..Len(s) : s[i] = "nl"}
    IN  IF nls = {} THEN <<s>>
        ELSE <<SubSeq(s, 1, MinOf(nls) - 1)>>
                 \o SplitLines(SubSeq(s, MinOf(nls) + 1, Len(s)))

\* '\n'.join(lines)
RECURSIVE JoinLines(_)
JoinLines(lines) ==
    IF Len(lines) = 0 THEN <<>>
    ELSE IF Len(lines) = 1 THEN lines[1]
    ELSE lines[1] \o <<"nl">> \o JoinLines(Tail(lines))

\* lines.insert(i, x), i a 0-based index with 0 <= i <= len(lines)
ListInsert(lines, i, x) == SubSeq(lines, 1, i) \o <<x>> \o SubSeq(lines, i + 1, Len(lines))

\* s.replace(old, new): every non-overlapping occurrence, left to right
RECURSIVE Replace(_, _, _)
Replace(s, old, new) ==
    IF Len(s) < Len(old) \/ Len(old) = 0 THEN s
    ELSE IF StartsWith(s, old)
         THEN new \o Replace(SubSeq(s, Len(old) + 1, Len(s)), old, new)
         ELSE <<s[1]>> \o Replace(Tail(s), old, new)

\* open(path, 'r', encoding='utf-8').read() raises on a byte that is not UTF-8
Readable(content) == "xff" \notin Range(content)

----------------------------------------------------------------------------
(* Workspace *)

NoWorkspace == [p \in {} |-> <<>>]

Exists(tree, p) == p \in DOMAIN tree

WriteFile(tree, p, content) ==
    [q \in DOMAIN tree \cup {p} |-> IF q = p THEN content ELSE tree[q]]

\* what a patch function leaves behind: the workspace, its return value,
\* and whether it raised instead of returning
Return(tree, r) == [fs |-> tree, ret |-> r, exc |-> FALSE]
Raise(tree) == [fs |-> tree, ret |-> FALSE, exc |-> TRUE]

RootPath(name) == <<name>>

REQUIREMENTS_TXT == RootPath(<<"requirements", ".txt">>)
REQUIREMENTS_DEV_TXT == RootPath(<<"requirements", "-dev", ".txt">>)
SETUP_PY == RootPath(<<"setup", ".py">>)
PYPROJECT_TOML == RootPath(<<"pyproject", ".toml">>)
PIPFILE == RootPath(<<"Pipfile">>)
POETRY_LOCK == RootPath(<<"poetry", ".lock">>)

\* the literal 'dbdemos-tracker'
DEP == <<"dbdemos-tracker">>
\* the literal 'dbdemos-tracker = "*"'
DEP_ENTRY == <<"dbdemos-tracker", "sp", "=", "sp", "dq", "*", "dq">>
POETRY_HEADER == <<"[", "tool.poetry.dependencies", "]">>
PACKAGES_HEADER == <<"[", "packages", "]">>

----------------------------------------------------------------------------
(* Dependency Patcher *)

add_to_requirements(tree, file_path) ==
    LET content == tree[file_path]
    IN  IF ~Readable(content) THEN Raise(tree)
        ELSE IF ~Contains(content, DEP)
             THEN Return(WriteFile(tree, file_path, content \o DEP \o <<"nl">>), TRUE)
             ELSE Return(tree, FALSE)

\* the loop shared by add_to_pyproject and add_to_pipfile: insert the entry
\* after the first line that is the header once stripped, if there is one
InsertAfterHeader(content, header) ==
    LET lines == SplitLines(content)
        hits == {i \in 1..Len(lines) : Strip(lines[i]) = header}
    IN  IF hits = {} THEN JoinLines(lines)
        ELSE JoinLines(ListInsert(lines, MinOf(hits), DEP_ENTRY))

add_to_pyproject(tree, file_path) ==
    LET content == tree[file_path]
    IN  IF ~Readable(content) THEN Raise(tree)
        ELSE IF ~Contains(content, DEP) /\ Contains(content, POETRY_HEADER)
             THEN Return(WriteFile(tree, file_path,
                                   InsertAfterHeader(content, POETRY_HEADER)), TRUE)
             ELSE Return(tree, FALSE)

add_to_pipfile(tree, file_path) ==
    LET content == tree[file_path]
    IN  IF ~Readable(content) THEN Raise(tree)
        ELSE IF ~Contains(content, DEP) /\ Contains(content, PACKAGES_HEADER)
             THEN Return(WriteFile(tree, file_path,
                                   InsertAfterHeader(content, PACKAGES_HEADER)), TRUE)
             ELSE Return(tree, FALSE)

\* the first index >= i of s that holds no whitespace, Len(s) + 1 if none
RECURSIVE SkipSpace(_, _)
SkipSpace(s, i) == IF i <= Len(s) /\ IsSpace(s[i]) THEN SkipSpace(s, i + 1) ELSE i

\* re.search(r'(install_requires\s*=\s*\[)(.*?)(\])', content, re.DOTALL):
\* the positions where the pattern's first group matches, each with the
\* position of its "[" ...
InstallRequiresHeads(content) ==
    {h \in (1..Len(content)) \X (1..Len(content)) :
        /\ content[h[1]] = "install_requires"
        /\ LET eq == SkipSpace(content, h[1] + 1)
           IN  /\ eq <= Len(content)
               /\ content[eq] = "="
               /\ h[2] = SkipSpace(content, eq + 1)
               /\ content[h[2]] = "["}

\* ... and the leftmost match: the start, the "[" and the first "]" after it
\* (.*? is not greedy); <<>> when nothing matches
InstallRequiresMatch(content) ==
    LET ok == {h \in InstallRequiresHeads(content) :
                  \E c \in (h[2] + 1)..Len(content) : content[c] = "]"}
    IN  IF ok = {} THEN <<>>
        ELSE LET start == MinOf({h[1] : h \in ok})
                 open == (CHOOSE h \in ok : h[1] = start)[2]
                 close == MinOf({c \in (open + 1)..Len(content) : content[c] = "]"})
             IN  <<start, open, close>>

\* f"{deps},\n        'dbdemos-tracker'"
AppendedDeps(deps) ==
    deps \o <<",", "nl", "sp", "sp", "sp", "sp", "sp", "sp", "sp", "sp",
              "'", "dbdemos-tracker", "'">>

\* "\n        'dbdemos-tracker'\n    "
SoleDeps ==
    <<"nl", "sp", "sp", "sp", "sp", "sp", "sp", "sp", "sp",
      "'", "dbdemos-tracker", "'", "nl", "sp", "sp", "sp", "sp">>

add_to_setup_py(tree, file_path) ==
    LET content == tree[file_path]
        m == InstallRequiresMatch(content)
    IN  IF ~Readable(content) THEN Raise(tree)
        ELSE IF ~Contains(content, DEP) /\ m # <<>>
             THEN LET whole == SubSeq(content, m[1], m[3])
                      before == SubSeq(content, m[1], m[2])
                      deps == SubSeq(content, m[2] + 1, m[3] - 1)
                      after == <<content[m[3]]>>
                      new_deps == IF Strip(deps) # <<>> THEN AppendedDeps(deps)
                                  ELSE SoleDeps
                      new_content == Replace(content, whole, before \o new_deps \o after)
                  IN  Return(WriteFile(tree, file_path, new_content), TRUE)
             ELSE Return(tree, FALSE)

\* add_dependency as it would be if a manifest whose patch reports no change
\* let the loop go on to the next manifest
add_dependency_fallthrough(tree) ==
    LET none == Return(tree, FALSE)
        a == IF Exists(tree, REQUIREMENTS_TXT)
             THEN add_to_requirements(tree, REQUIREMENTS_TXT) ELSE none
        b == IF Exists(tree, PYPROJECT_TOML)
             THEN add_to_pyproject(tree, PYPROJECT_TOML) ELSE none
        c == IF Exists(tree, SETUP_PY) THEN add_to_setup_py(tree, SETUP_PY) ELSE none
        d == IF Exists(tree, PIPFILE) THEN add_to_pipfile(tree, PIPFILE) ELSE none
    IN  IF {REQUIREMENTS_TXT, PYPROJECT_TOML, SETUP_PY, PIPFILE} \cap DOMAIN tree = {}
        THEN Return(WriteFile(tree, REQUIREMENTS_TXT, DEP \o <<"nl">>), TRUE)
        ELSE IF a.ret \/ a.exc THEN a
        ELSE IF b.ret \/ b.exc THEN b
        ELSE IF c.ret \/ c.exc THEN c
        ELSE d

add_dependency(tree) ==
    IF Exists(tree, REQUIREMENTS_TXT) THEN add_to_requirements(tree, REQUIREMENTS_TXT)
    ELSE IF Exists(tree, PYPROJECT_TOML) THEN add_to_pyproject(tree, PYPROJECT_TOML)
    ELSE IF Exists(tree, SETUP_PY) THEN add_to_setup_py(tree, SETUP_PY)
    ELSE IF Exists(tree, PIPFILE) THEN add_to_pipfile(tree, PIPFILE)
    ELSE Return(WriteFile(tree, REQUIREMENTS_TXT, DEP \o <<"nl">>), TRUE)

----------------------------------------------------------------------------
(* Detector *)

\* file.endswith('.py')
IsPythonFile(p) == p[Len(p)][Len(p[Len(p)])] = ".py"

\* os.walk with dirs[:] = [d for d in dirs if not d.startswith('.')]: the
\* files below a directory whose name starts with "." are never visited
InHiddenDir(p) == \E i \in 1..(Len(p) - 1) : p[i][1] = "."

\* the order in which os.listdir and os.walk (top-down: a directory's files,
\* then its subdirectories) yield the paths of the workspace
ListingOrder ==
    << RootPath(<<"util", ".py">>),
       RootPath(<<"setup", ".py">>),
       RootPath(<<"run", ".py">>),
       RootPath(<<"tool", ".py">>),
       RootPath(<<"main", ".py">>),
       RootPath(<<"setup", "_env", ".py">>),
       RootPath(<<"app", ".py">>),
       RootPath(<<"__main__", ".py">>),
       RootPath(<<"requirements", ".txt">>),
       RootPath(<<"requirements", "-dev", ".txt">>),
       RootPath(<<"pyproject", ".toml">>),
       RootPath(<<"Pipfile">>),
       RootPath(<<"poetry", ".lock">>),
       RootPath(<<"README", ".md">>),
       << <<"pkg">>, <<"__init__", ".py">> >>,
       << <<"pkg">>, <<"core", ".py">> >>,
       << <<"pkg">>, <<"cli", ".py">> >>,
       << <<".", "hooks">>, <<"hook", ".py">> >> >>

Paths == Range(ListingOrder)

\* the files of the workspace in listing order
Listed(tree) == SelectSeq(ListingOrder, LAMBDA p : p \in DOMAIN tree)

DependencyFiles ==
    <<REQUIREMENTS_TXT, REQUIREMENTS_DEV_TXT, SETUP_PY, PYPROJECT_TOML, PIPFILE,
      POETRY_LOCK>>

check_dependency_files(tree) ==
    \E i \in 1..Len(DependencyFiles) :
        /\ Exists(tree, DependencyFiles[i])
        /\ Readable(tree[DependencyFiles[i]])
        /\ Contains(tree[DependencyFiles[i]], DEP)

\* re.search(r'from\s+dbdemos_tracker|import\s+dbdemos_tracker', content)
ImportPattern(content) ==
    \E i \in 1..Len(content) :
        /\ content[i] \in {"from", "import"}
        /\ i + 1 <= Len(content)
        /\ IsSpace(content[i + 1])
        /\ SkipSpace(content, i + 1) <= Len(content)
        /\ content[SkipSpace(content, i + 1)] = "dbdemos_tracker"

check_tracker_imports(tree) ==
    \E i \in 1..Len(Listed(tree)) :
        LET p == Listed(tree)[i]
        IN  /\ ~InHiddenDir(p)
            /\ IsPythonFile(p)
            /\ Readable(tree[p])
            /\ ImportPattern(tree[p])

\* check_tracker_exists as it would be without the scan of the sources
check_tracker_exists_manifests_only(tree) == check_dependency_files(tree)

check_tracker_exists(tree) ==
    IF check_dependency_files(tree) THEN TRUE
    ELSE IF check_tracker_imports(tree) THEN TRUE
    ELSE FALSE

----------------------------------------------------------------------------
(* Initialization Patcher *)

IMPORT_LINE == <<"import", "sp", "dbdemos_tracker">>
FROM_PREFIX == <<"from", "sp", "dbdemos_tracker">>
INIT_CALL == <<"dbdemos_tracker", ".", "initialize", "(", ")">>
INIT_COMMENT == <<"#", "sp", "Initialize", "sp", "dbdemos", "sp", "tracker">>

Spaces(n) == [i \in 1..n |-> "sp"]

\* line.strip().startswith('import ') or line.strip().startswith('from ')
IsImportStyle(line) ==
    \/ StartsWith(Strip(line), <<"import", "sp">>)
    \/ StartsWith(Strip(line), <<"from", "sp">>)

\* the for loop that leaves import_line_idx one past the last import-style line
ImportLineIdx(lines) ==
    LET hits == {i \in 1..Len(lines) : IsImportStyle(lines[i])}
    IN  IF hits = {} THEN 0 ELSE CHOOSE i \in hits : \A k \in hits : k <= i

\* '__name__' in line and '__main__' in line
IsMainGuard(line) == "__name__" \in Range(line) /\ "__main__" \in Range(line)

IsBlank(line) == Strip(line) = <<>>
IsComment(line) == StartsWith(Strip(line), <<"#">>)
IsIndented(line) == Len(line) > 0 /\ line[1] \in {"sp", "tab"}

\* the while loop below the main guard, from the 0-based index j: the 0-based
\* index to insert the call at, or -1 when the loop ends without inserting
RECURSIVE MainBlockSlot(_, _)
MainBlockSlot(lines, j) ==
    IF j < Len(lines) /\ (IsBlank(lines[j + 1]) \/ IsIndented(lines[j + 1]))
    THEN IF ~IsBlank(lines[j + 1]) /\ ~IsComment(lines[j + 1]) THEN j
         ELSE MainBlockSlot(lines, j + 1)
    ELSE -1

\* re.match(r'def\s+main\s*\(', line.strip())
IsMainDef(line) ==
    LET s == Strip(line)
    IN  /\ Len(s) >= 2
        /\ s[1] = "def"
        /\ IsSpace(s[2])
        /\ SkipSpace(s, 2) <= Len(s)
        /\ s[SkipSpace(s, 2)] = "main"
        /\ SkipSpace(s, SkipSpace(s, 2) + 1) <= Len(s)
        /\ s[SkipSpace(s, SkipSpace(s, 2) + 1)] = "("

\* the while loop below def main(: the first 0-based index >= j whose line is
\* neither blank nor a comment, len(lines) if there is none
RECURSIVE MainDefSlot(_, _)
MainDefSlot(lines, j) ==
    IF j < Len(lines) /\ (IsBlank(lines[j + 1]) \/ IsComment(lines[j + 1]))
    THEN MainDefSlot(lines, j + 1)
    ELSE j

\* the lines after the search for the main guard: the lines and init_added
InitInMainBlock(lines) ==
    LET guards == {i \in 1..Len(lines) : IsMainGuard(lines[i])}
        j == IF guards = {} THEN -1 ELSE MainBlockSlot(lines, MinOf(guards))
    IN  IF j >= 0
        THEN [lines |-> ListInsert(lines, j, Spaces(4) \o INIT_CALL), init_added |-> TRUE]
        ELSE [lines |-> lines, init_added |-> FALSE]

\* the lines after the search for the main function
InitInMainDef(lines) ==
    LET defs == {i \in 1..Len(lines) : IsMainDef(lines[i])}
        j == IF defs = {} THEN Len(lines) ELSE MainDefSlot(lines, MinOf(defs))
    IN  IF j < Len(lines)
        THEN LET indent == Len(lines[j + 1]) - Len(LStrip(lines[j + 1]))
             IN  [lines |-> ListInsert(lines, j, Spaces(indent) \o INIT_CALL),
                  init_added |-> TRUE]
        ELSE [lines |-> lines, init_added |-> FALSE]

\* the content add_tracker_init_to_file writes for a file without the import
PatchedSource(content) ==
    LET lines0 == SplitLines(content)
        lines1 == ListInsert(lines0, ImportLineIdx(lines0), IMPORT_LINE)
        a == InitInMainBlock(lines1)
        b == IF a.init_added THEN a ELSE InitInMainDef(a.lines)
        lines3 == IF b.init_added THEN b.lines
                  ELSE b.lines \o << <<>>, INIT_COMMENT, INIT_CALL >>
    IN  JoinLines(lines3)

\* 'import dbdemos_tracker' in content or 'from dbdemos_tracker' in content
HasImportText(content) == Contains(content, IMPORT_LINE) \/ Contains(content, FROM_PREFIX)

add_tracker_init_to_file(tree, file_path) ==
    LET content == tree[file_path]
    IN  IF ~Readable(content) THEN Return(tree, FALSE)
        ELSE IF HasImportText(content) THEN Return(tree, FALSE)
        ELSE Return(WriteFile(tree, file_path, PatchedSource(content)), TRUE)

MAIN_PY == RootPath(<<"main", ".py">>)

EntryPoints ==
    <<MAIN_PY, RootPath(<<"app", ".py">>), RootPath(<<"__main__", ".py">>),
      RootPath(<<"run", ".py">>)>>

\* [f for f in os.listdir(repo_path) if f.endswith('.py') and not f.startswith('setup')]
\* (no workspace of the model holds a directory whose name ends in .py)
RootPythonFiles(tree) ==
    SelectSeq(Listed(tree),
              LAMBDA p : Len(p) = 1 /\ IsPythonFile(p) /\ p[1][1] # "setup")

\* the number of bytes of a token
ByteLen(t) ==
    CASE t = "import" -> 6
      [] t = "from" -> 4
      [] t = "dbdemos_tracker" -> 15
      [] t = "dbdemos-tracker" -> 15
      [] t = "initialize" -> 10
      [] t = "Initialize" -> 10
      [] t = "dbdemos" -> 7
      [] t = "tracker" -> 7
      [] t = "__name__" -> 8
      [] t = "__main__" -> 8
      [] t = "def" -> 3
      [] t = "main" -> 4
      [] t = "if" -> 2
      [] t = "==" -> 2
      [] t = "os" -> 2
      [] t = "sys" -> 3
      [] t = "run" -> 3
      [] t = "pass" -> 4
      [] t = "print" -> 5
      [] t = "setup" -> 5
      [] t = "todo" -> 4
      [] t = "install_requires" -> 16
      [] t = "flask" -> 5
      [] t = "Main entry point with dbdemos tracker initialization." -> 53
      [] t = "Main function." -> 14
      [] t = "Application started with dbdemos tracker" -> 40
      [] t = "dq3" -> 3
      [] OTHER -> 1

\* os.path.getsize
RECURSIVE ByteSize(_)
ByteSize(content) ==
    IF Len(content) = 0 THEN 0 ELSE ByteLen(content[1]) + ByteSize(Tail(content))

\* the os.walk loop that keeps the first file of the greatest size above 0:
\* largest_file after the files order[i..] are visited, <<>> standing for None
RECURSIVE LargestFile(_, _, _, _, _)
LargestFile(tree, order, i, largest_file, largest_size) ==
    IF i > Len(order) THEN largest_file
    ELSE IF /\ ~InHiddenDir(order[i])
            /\ IsPythonFile(order[i])
            /\ ByteSize(tree[order[i]]) > largest_size
         THEN LargestFile(tree, order, i + 1, order[i], ByteSize(tree[order[i]]))
         ELSE LargestFile(tree, order, i + 1, largest_file, largest_size)

\* the text of the main.py that add_initialization creates
DEFAULT_MAIN ==
    JoinLines(<< <<"dq3", "Main entry point with dbdemos tracker initialization.", "dq3">>,
                 <<>>,
                 IMPORT_LINE,
                 <<>>,
                 <<"def", "sp", "main", "(", ")", ":">>,
                 Spaces(4) \o <<"dq3", "Main function.", "dq3">>,
                 Spaces(4) \o INIT_CALL,
                 Spaces(4) \o <<"print", "(", "dq",
                                "Application started with dbdemos tracker", "dq", ")">>,
                 <<>>,
                 <<"if", "sp", "__name__", "sp", "==", "sp", "dq", "__main__", "dq", ":">>,
                 Spaces(4) \o <<"main", "(", ")">>,
                 <<>> >>)

\* the file add_initialization hands to add_tracker_init_to_file, <<>> when
\* it finds none
InitTarget(tree) ==
    LET all_candidates == EntryPoints \o RootPythonFiles(tree)
        found == {i \in 1..Len(all_candidates) : Exists(tree, all_candidates[i])}
    IN  IF found # {} THEN all_candidates[MinOf(found)]
        ELSE LargestFile(tree, Listed(tree), 1, <<>>, 0)

add_initialization(tree) ==
    IF InitTarget(tree) # <<>> THEN add_tracker_init_to_file(tree, InitTarget(tree))
    ELSE Return(WriteFile(tree, MAIN_PY, DEFAULT_MAIN), TRUE)

\* add_dependency, then add_initialization on what it left; an exception of
\* add_dependency leaves add_initialization uncalled
add_tracker_to_repo(tree) ==
    LET d == add_dependency(tree)
        n == add_initialization(d.fs)
    IN  IF d.exc THEN Raise(d.fs)
        ELSE Return(n.fs, d.ret \/ n.ret)

----------------------------------------------------------------------------
(* The patch functions applied to a workspace, one call after another *)

\* no batch is running
OrchIdle ==
    /\ repo_urls = <<>>
    /\ idx = 1
    /\ pc = "idle"
    /\ cloned = NoWorkspace
    /\ has_tracker = FALSE
    /\ changes_made = FALSE
    /\ committed = FALSE
    /\ exc = FALSE
    /\ calls = <<>>
    /\ attempted = <<>>
    /\ workspaces = {}
    /\ pushed = {}
    /\ prs = {}
    /\ failed = {}
    /\ main = NotInMain

Applied(op, path, r) ==
    /\ Len(trace) < MaxApply
    /\ fs' = r.fs
    /\ trace' = Append(trace, [op |-> op, path |-> path, pre |-> fs, post |-> r.fs,
                               ret |-> r.ret, exc |-> r.exc])
    /\ UNCHANGED orchVars

ApplyAddDependency == Applied("add_dependency", <<>>, add_dependency(fs))

ApplyAddToPyproject ==
    /\ Exists(fs, PYPROJECT_TOML)
    /\ Applied("add_to_pyproject", PYPROJECT_TOML, add_to_pyproject(fs, PYPROJECT_TOML))

ApplyAddInitialization == Applied("add_initialization", <<>>, add_initialization(fs))

ApplyAddTrackerInitToFile ==
    \E p \in DOMAIN fs :
        /\ IsPythonFile(p)
        /\ Applied("add_tracker_init_to_file", p, add_tracker_init_to_file(fs, p))

ApplyCheckTrackerExists ==
    Applied("check_tracker_exists", <<>>, Return(fs, check_tracker_exists(fs)))

\* a workspace from the content chosen for each path, <<"absent">> for a
\* path that has no file
ABSENT == <<"absent">>

TreeOf(choice) ==
    [p \in {q \in DOMAIN choice : choice[q] # ABSENT} |-> choice[p]]

SMALL_SOURCE == <<"run", "(", ")", "nl">>

RequirementsTexts ==
    { <<"flask", "nl">>,
      <<"flask">>,
      <<"#", "sp", "dbdemos-tracker", "nl">>,
      <<"xff">> }

PyprojectTexts ==
    { POETRY_HEADER \o <<"nl", "flask", "sp", "=", "sp", "dq", "*", "dq", "nl">>,
      <<"sp">> \o POETRY_HEADER \o <<"sp", "nl", "flask", "nl">>,
      POETRY_HEADER \o <<"sp", "#", "sp", "flask", "nl", "flask", "nl">>,
      <<"#">> \o POETRY_HEADER \o <<"nl", "[", "project", "]", "nl">>
          \o POETRY_HEADER \o <<"nl", "flask", "nl">>,
      <<"[", "project", "]", "nl", "flask", "nl">> }

SetupTexts ==
    { <<"setup", "(", "install_requires", "=", "[", "'", "flask", "'", "]", ")", "nl">>,
      <<"setup", "(", "install_requires", "sp", "=", "sp", "[", "nl", "]", ")", "nl">>,
      <<"setup", "(", ")", "nl">> }

PipfileTexts ==
    { PACKAGES_HEADER \o <<"nl", "flask", "sp", "=", "sp", "dq", "*", "dq", "nl">>,
      <<"#">> \o PACKAGES_HEADER \o <<"nl">> }

\* workspaces that differ in their manifests
DepTrees ==
    { TreeOf((REQUIREMENTS_TXT :> r) @@ (PYPROJECT_TOML :> y) @@ (SETUP_PY :> s)
             @@ (PIPFILE :> k) @@ (MAIN_PY :> SMALL_SOURCE)) :
        r \in RequirementsTexts \cup {ABSENT},
        y \in PyprojectTexts \cup {ABSENT},
        s \in SetupTexts \cup {ABSENT},
        k \in PipfileTexts \cup {ABSENT} }

InitDep == fs \in DepTrees /\ trace = <<>> /\ OrchIdle

NextDep == ApplyAddDependency \/ ApplyAddToPyproject

SpecDep == InitDep /\ [][NextDep]_vars

----------------------------------------------------------------------------
(* Claims on the Dependency Patcher, under SpecDep *)

Calls(op) == {k \in 1..Len(trace) : trace[k].op = op}

\* the first of requirements.txt, pyproject.toml, setup.py, Pipfile that
\* exists, <<>> if none does
FirstManifest(tree) ==
    LET order == <<REQUIREMENTS_TXT, PYPROJECT_TOML, SETUP_PY, PIPFILE>>
        there == {i \in 1..4 : order[i] \in DOMAIN tree}
    IN  IF there = {} THEN <<>> ELSE order[MinOf(there)]

SameExcept(pre, post, p) ==
    /\ DOMAIN post \ {p} = DOMAIN pre \ {p}
    /\ \A q \in DOMAIN pre \ {p} : post[q] = pre[q]

\* C4: add_dependency applied twice in succession is idempotent: the second
\* application returns False and leaves every file as the first left it.
C4_Idempotent ==
    \A k \in Calls("add_dependency") :
        (k + 1 \in Calls("add_dependency") /\ ~trace[k].exc /\ ~trace[k + 1].exc)
            => (~trace[k + 1].ret /\ trace[k + 1].post = trace[k + 1].pre)

\* C5: add_dependency touches only the first existing manifest of the
\* preference order, whatever that manifest's patch reports; when none of the
\* four exists it creates requirements.txt holding exactly the dependency name
\* on its own line and reports a change.
C5_SoleTarget ==
    \A k \in Calls("add_dependency") :
        LET e == trace[k]
            t == FirstManifest(e.pre)
        IN  IF t # <<>>
            THEN DOMAIN e.post = DOMAIN e.pre /\ SameExcept(e.pre, e.post, t)
            ELSE /\ ~e.exc
                 /\ e.ret
                 /\ SameExcept(e.pre, e.post, REQUIREMENTS_TXT)
                 /\ REQUIREMENTS_TXT \in DOMAIN e.post
                 /\ e.post[REQUIREMENTS_TXT] = <<"dbdemos-tracker", "nl">>

\* C5 witness: the chosen manifest reported no change while a later manifest
\* that lacks the dependency exists.
C5_Witness ==
    \E k \in Calls("add_dependency") :
        /\ ~trace[k].ret
        /\ ~trace[k].exc
        /\ \E p \in {PYPROJECT_TOML, SETUP_PY, PIPFILE} \ {FirstManifest(trace[k].pre)} :
               /\ p \in DOMAIN trace[k].pre
               /\ ~Contains(trace[k].pre[p], DEP)

\* C6: for a pyproject.toml that does not mention the dependency,
\* add_to_pyproject inserts exactly one entry line right after the header line
\* and reports a change when the header is there, edits nothing and reports
\* nothing when it is not, and reports a change if and only if the content
\* gained the dependency line.
C6_PyprojectPatch ==
    \A k \in Calls("add_to_pyproject") :
        LET e == trace[k]
            old == e.pre[PYPROJECT_TOML]
            new == e.post[PYPROJECT_TOML]
            lines == SplitLines(old)
            headers == {i \in 1..Len(lines) : Strip(lines[i]) = POETRY_HEADER}
        IN  (Readable(old) /\ ~Contains(old, DEP)) =>
                /\ headers # {} =>
                       /\ e.ret
                       /\ new = JoinLines(SubSeq(lines, 1, MinOf(headers))
                                          \o <<DEP_ENTRY>>
                                          \o SubSeq(lines, MinOf(headers) + 1, Len(lines)))
                /\ ~Contains(old, POETRY_HEADER) => (~e.ret /\ new = old)
                /\ e.ret <=> (new # old /\ Contains(new, DEP))
                /\ SameExcept(e.pre, e.post, PYPROJECT_TOML)

----------------------------------------------------------------------------
(* Workspaces that differ in the text of one source file *)

MAIN_GUARD == <<"if", "sp", "__name__", "sp", "==", "sp", "dq", "__main__", "dq", ":">>
MAIN_DEF == <<"def", "sp", "main", "(", ")", ":">>
RUN_CALL == <<"run", "(", ")">>

SourceTexts ==
    { <<>>,
      JoinLines(<< <<"import", "sp", "os">>, RUN_CALL, <<>> >>),
      JoinLines(<< <<"import", "sp", "os">>, <<>>, MAIN_GUARD,
                   Spaces(4) \o RUN_CALL, <<>> >>),
      JoinLines(<< MAIN_DEF, <<"tab">> \o RUN_CALL, <<>> >>),
      JoinLines(<< MAIN_DEF, Spaces(4) \o <<"pass">>, <<>>, MAIN_GUARD,
                   Spaces(4) \o <<"main", "(", ")">>, <<>> >>),
      JoinLines(<< MAIN_GUARD, Spaces(4) \o <<"import", "sp", "sys">>,
                   Spaces(4) \o RUN_CALL, <<>> >>),
      MAIN_GUARD,
      JoinLines(<< MAIN_GUARD, <<"#", "sp", "start">>, Spaces(4) \o RUN_CALL, <<>> >>),
      JoinLines(<< MAIN_GUARD, <<"tab">> \o RUN_CALL, <<>> >>),
      JoinLines(<< <<"if", "sp", "True", ":">>, Spaces(4) \o MAIN_GUARD,
                   Spaces(8) \o RUN_CALL, <<>> >>),
      JoinLines(<< MAIN_DEF, Spaces(4) \o <<"import", "sp", "sys">>,
                   Spaces(4) \o RUN_CALL, <<>> >>),
      JoinLines(<< IMPORT_LINE, RUN_CALL, <<>> >>),
      JoinLines(<< <<"from", "sp", "dbdemos_tracker", "sp", "import", "sp", "initialize">>,
                   <<>> >>),
      JoinLines(<< <<"import", "sp", "sp", "dbdemos_tracker">>, RUN_CALL, <<>> >>),
      JoinLines(<< <<"from", "tab", "dbdemos_tracker", "sp", "import", "sp", "initialize">>,
                   <<>> >>),
      JoinLines(<< <<"#", "sp", "todo", "sp">> \o IMPORT_LINE, RUN_CALL, <<>> >>),
      JoinLines(<< <<"xff">>, IMPORT_LINE, <<>> >>) }

PKG_CORE_PY == << <<"pkg">>, <<"core", ".py">> >>
PKG_INIT_PY == << <<"pkg">>, <<"__init__", ".py">> >>
HOOK_PY == << <<".", "hooks">>, <<"hook", ".py">> >>

SourceTrees ==
    { TreeOf((p :> c) @@ (REQUIREMENTS_TXT :> r)) :
        p \in {MAIN_PY, PKG_CORE_PY, HOOK_PY},
        c \in SourceTexts,
        r \in {ABSENT, <<"flask", "nl">>, <<"dbdemos-tracker", "nl">>} }

InitInit == fs \in SourceTrees /\ trace = <<>> /\ OrchIdle

NextInit == ApplyAddTrackerInitToFile \/ ApplyAddInitialization \/ ApplyCheckTrackerExists

SpecInit == InitInit /\ [][NextInit]_vars

(* Workspaces that differ in which source files they hold, and of what size *)

BIG_SOURCE == <<"import", "sp", "os", "nl", "run", "(", ")", "nl">>

ShapeTrees ==
    { TreeOf((MAIN_PY :> e[1]) @@ (RootPath(<<"run", ".py">>) :> e[2])
             @@ (RootPath(<<"util", ".py">>) :> r[1])
             @@ (RootPath(<<"tool", ".py">>) :> r[2])
             @@ (RootPath(<<"setup", "_env", ".py">>) :> v)
             @@ (SETUP_PY :> s) @@ (PKG_INIT_PY :> i) @@ (PKG_CORE_PY :> c)
             @@ (HOOK_PY :> h)) :
        e \in {<<ABSENT, ABSENT>>, <<ABSENT, SMALL_SOURCE>>, <<SMALL_SOURCE, SMALL_SOURCE>>},
        r \in {<<ABSENT, ABSENT>>, <<ABSENT, SMALL_SOURCE>>, <<SMALL_SOURCE, SMALL_SOURCE>>},
        v \in {ABSENT, SMALL_SOURCE},
        s \in {ABSENT, <<"setup", "(", ")", "nl">>},
        i \in {ABSENT, <<>>, SMALL_SOURCE},
        c \in {ABSENT, <<>>, SMALL_SOURCE, BIG_SOURCE},
        h \in {ABSENT, BIG_SOURCE} }

InitSelect == fs \in ShapeTrees /\ trace = <<>> /\ OrchIdle

NextSelect == ApplyAddInitialization \/ ApplyCheckTrackerExists

SpecSelect == InitSelect /\ [][NextSelect]_vars

----------------------------------------------------------------------------
(* Claims on the Detector and the Initialization Patcher *)

\* the source files of a workspace, and those a walk that skips hidden
\* directories reaches
SourceFiles(tree) == {p \in DOMAIN tree : IsPythonFile(p)}
VisibleSourceFiles(tree) == {p \in SourceFiles(tree) : ~InHiddenDir(p)}

ManifestMentions(tree) ==
    \E p \in {REQUIREMENTS_TXT, REQUIREMENTS_DEV_TXT, SETUP_PY, PYPROJECT_TOML,
              PIPFILE, POETRY_LOCK} \cap DOMAIN tree :
        Readable(tree[p]) /\ Contains(tree[p], DEP)

\* C7 as stated: whenever some .py file of the repository holds an import of
\* the tracker module in either syntax, check_tracker_exists returns True, and
\* it returns False only when neither a manifest nor a source matches.
C7_AnySourceImport ==
    \A k \in Calls("check_tracker_exists") :
        LET tree == trace[k].pre
        IN  /\ (\E p \in SourceFiles(tree) : Readable(tree[p]) /\ ImportPattern(tree[p]))
                   => trace[k].ret
            /\ ~trace[k].ret =>
                   /\ ~ManifestMentions(tree)
                   /\ \A p \in VisibleSourceFiles(tree) :
                          ~(Readable(tree[p]) /\ ImportPattern(tree[p]))

\* C7 amended: whenever some .py file outside the hidden directories that
\* can be read as UTF-8 holds an import of the tracker module in either syntax,
\* check_tracker_exists returns True, manifests mentioning it or not; it
\* returns False only when no readable manifest mentions the dependency and no
\* such file holds the import, and then it does return False.
C7_VisibleSourceImport ==
    \A k \in Calls("check_tracker_exists") :
        LET tree == trace[k].pre
            imported == \E p \in VisibleSourceFiles(tree) :
                            Readable(tree[p]) /\ ImportPattern(tree[p])
        IN  /\ imported => trace[k].ret
            /\ ~trace[k].ret <=> (~ManifestMentions(tree) /\ ~imported)
            /\ trace[k].post = tree

\* C7 witness: the detector returned True for a workspace whose manifests do
\* not mention the dependency and whose import is not in the one-space form.
C7_Witness ==
    \E k \in Calls("check_tracker_exists") :
        /\ trace[k].ret
        /\ ~ManifestMentions(trace[k].pre)
        /\ \E p \in VisibleSourceFiles(trace[k].pre) :
               /\ ImportPattern(trace[k].pre[p])
               /\ ~HasImportText(trace[k].pre[p])

\* the number of lines of a text that are equal to a line once stripped
CountLines(content, line) ==
    Cardinality({i \in 1..Len(SplitLines(content)) : Strip(SplitLines(content)[i]) = line})

\* C8: a file that already holds the tracker import, in either syntax, is left
\* byte for byte as it is and no change is reported; and however often the
\* patch functions are applied, a file gains at most one import line and at
\* most one initialization call.
C8_NeverTwice ==
    /\ \A k \in Calls("add_tracker_init_to_file") :
           LET old == trace[k].pre[trace[k].path]
           IN  (Readable(old) /\ ImportPattern(old)) =>
                   (~trace[k].ret /\ trace[k].post = trace[k].pre)
    /\ Len(trace) > 0 =>
           \A p \in DOMAIN trace[1].pre :
               /\ CountLines(fs[p], IMPORT_LINE)
                      <= CountLines(trace[1].pre[p], IMPORT_LINE) + 1
               /\ CountLines(fs[p], INIT_CALL)
                      <= CountLines(trace[1].pre[p], INIT_CALL) + 1

\* the file C9's rules choose: (a) the first entry-point name present in the
\* root, (b) else the first root source file not named setup*, (c) else the
\* first of the largest source files of the non-hidden tree; <<>> for (d)
ClaimedTarget(tree) ==
    LET entries == {i \in 1..Len(EntryPoints) : EntryPoints[i] \in DOMAIN tree}
        listed == Listed(tree)
        roots == {i \in 1..Len(listed) :
                     Len(listed[i]) = 1 /\ IsPythonFile(listed[i])
                         /\ listed[i][1][1] # "setup"}
        sources == {i \in 1..Len(listed) : listed[i] \in VisibleSourceFiles(tree)}
        largest == {i \in sources :
                       \A j \in sources :
                           ByteSize(tree[listed[j]]) <= ByteSize(tree[listed[i]])}
    IN  IF entries # {} THEN EntryPoints[MinOf(entries)]
        ELSE IF roots # {} THEN listed[MinOf(roots)]
        ELSE IF sources # {} THEN listed[MinOf(largest)]
        ELSE <<>>

\* C9: add_initialization writes to the file chosen by the first applicable
\* rule of (a), (b), (c) and to no other; it creates the default main.py only
\* when the tree holds no source file at all, and never over an existing file.
C9_TargetChoice ==
    \A k \in Calls("add_initialization") :
        LET e == trace[k]
            t == ClaimedTarget(e.pre)
        IN  IF t # <<>>
            THEN /\ DOMAIN e.post = DOMAIN e.pre
                 /\ SameExcept(e.pre, e.post, t)
                 /\ e.post[t] = add_tracker_init_to_file(e.pre, t).fs[t]
                 /\ e.ret = add_tracker_init_to_file(e.pre, t).ret
            ELSE /\ MAIN_PY \notin DOMAIN e.pre
                 /\ e.post = WriteFile(e.pre, MAIN_PY, DEFAULT_MAIN)
                 /\ e.ret

----------------------------------------------------------------------------
(* Orchestrator: process_repositories and process_single_repository *)

Urls == {"https://github.com/org/a.git", "https://github.com/org/b.git"}

RECURSIVE SeqsUpTo(_, _)
SeqsUpTo(S, n) ==
    IF n = 0 THEN {<<>>}
    ELSE SeqsUpTo(S, n - 1)
             \cup {Append(q, x) : q \in {r \in SeqsUpTo(S, n - 1) : Len(r) = n - 1}, x \in S}

\* what a clone may bring: repositories with and without the tracker, with
\* nothing to patch, with nothing at all, and with files that do not read
CloneTrees ==
    { (REQUIREMENTS_TXT :> <<"flask", "nl">>)
          @@ (MAIN_PY :> JoinLines(<< MAIN_DEF, Spaces(4) \o RUN_CALL, <<>> >>)),
      (REQUIREMENTS_TXT :> <<"dbdemos-tracker", "nl">>) @@ (MAIN_PY :> SMALL_SOURCE),
      (PKG_CORE_PY :> JoinLines(<< <<"import", "tab", "dbdemos_tracker">>, <<>> >>)),
      (RootPath(<<"README", ".md">>) :> <<"todo", "nl">>),
      (PYPROJECT_TOML :> <<"[", "project", "]", "nl">>) @@ (MAIN_PY :> <<"xff">>),
      (PYPROJECT_TOML :> POETRY_HEADER \o <<"sp", "#", "nl">>) @@ (MAIN_PY :> <<"xff">>),
      (REQUIREMENTS_TXT :> <<"xff">>) @@ (MAIN_PY :> SMALL_SOURCE),
      (HOOK_PY :> JoinLines(<< IMPORT_LINE, <<>> >>)) @@ (PKG_INIT_PY :> <<>>) }

Init ==
    /\ repo_urls \in SeqsUpTo(Urls, MaxRepos)
    /\ idx = 1
    /\ pc = "loop"
    /\ fs = NoWorkspace
    /\ trace = <<>>
    /\ cloned = NoWorkspace
    /\ has_tracker = FALSE
    /\ changes_made = FALSE
    /\ committed = FALSE
    /\ exc = FALSE
    /\ calls = <<>>
    /\ attempted = <<>>
    /\ workspaces = {}
    /\ pushed = {}
    /\ prs = {}
    /\ failed = {}
    /\ main = NotInMain

\* a step of process_single_repository returned
Returned(op, next) ==
    /\ calls' = Append(calls, <<op, "ok">>)
    /\ pc' = next
    /\ UNCHANGED exc

\* a step raised: the except clause logs and re-raises, which leaves the
\* with block
Raised(op) ==
    /\ calls' = Append(calls, <<op, "raised">>)
    /\ pc' = "exit"
    /\ exc' = TRUE

\* the for loop takes the next URL and process_single_repository creates its
\* temporary directory
BeginRepository ==
    /\ pc = "loop"
    /\ idx <= Len(repo_urls)
    /\ attempted' = Append(attempted, repo_urls[idx])
    /\ workspaces' = workspaces \cup {idx}
    /\ fs' = NoWorkspace
    /\ cloned' = NoWorkspace
    /\ calls' = <<>>
    /\ has_tracker' = FALSE
    /\ changes_made' = FALSE
    /\ committed' = FALSE
    /\ pc' = "clone"
    /\ UNCHANGED <<trace, main, repo_urls, idx, exc, pushed, prs, failed>>

CloneRepository ==
    /\ pc = "clone"
    /\ \/ \E tree \in CloneTrees :
              /\ fs' = tree
              /\ cloned' = tree
              /\ Returned("clone_repository", "detect")
       \/ Raised("clone_repository") /\ UNCHANGED <<fs, cloned>>
    /\ UNCHANGED <<trace, main, repo_urls, idx, has_tracker, changes_made, committed,
                   attempted, workspaces, pushed, prs, failed>>

\* CheckTrackerExists as it would be if process_single_repository went on
\* after finding the tracker
CheckTrackerExistsNoReturn ==
    /\ pc = "detect"
    /\ has_tracker' = check_tracker_exists(fs)
    /\ Returned("check_tracker_exists", "branch")
    /\ UNCHANGED <<fs, trace, main, repo_urls, idx, cloned, changes_made, committed,
                   attempted, workspaces, pushed, prs, failed>>

CheckTrackerExists ==
    /\ pc = "detect"
    /\ has_tracker' = check_tracker_exists(fs)
    /\ Returned("check_tracker_exists",
                IF check_tracker_exists(fs) THEN "exit" ELSE "branch")
    /\ UNCHANGED <<fs, trace, main, repo_urls, idx, cloned, changes_made, committed,
                   attempted, workspaces, pushed, prs, failed>>

CreateFeatureBranch ==
    /\ pc = "branch"
    /\ \/ Returned("create_feature_branch", "patch")
       \/ Raised("create_feature_branch")
    /\ UNCHANGED <<fs, trace, main, repo_urls, idx, cloned, has_tracker, changes_made,
                   committed, attempted, workspaces, pushed, prs, failed>>

\* add_tracker_to_repo: add_dependency, then add_initialization unless
\* add_dependency raised
AddTrackerToRepo ==
    /\ pc = "patch"
    /\ LET r == add_tracker_to_repo(fs)
       IN  /\ fs' = r.fs
           /\ changes_made' = r.ret
           /\ IF r.exc
              THEN /\ calls' = Append(calls, <<"add_dependency", "raised">>)
                   /\ pc' = "exit"
                   /\ exc' = TRUE
              ELSE /\ calls' = calls \o << <<"add_dependency", "ok">>,
                                           <<"add_initialization", "ok">> >>
                   /\ pc' = IF r.ret THEN "commit" ELSE "exit"
                   /\ UNCHANGED exc
    /\ UNCHANGED <<trace, main, repo_urls, idx, cloned, has_tracker, committed,
                   attempted, workspaces, pushed, prs, failed>>

\* commit_changes: stage everything, commit unless nothing differs
CommitChanges ==
    /\ pc = "commit"
    /\ \/ committed' = (fs # cloned) /\ Returned("commit_changes", "push")
       \/ Raised("commit_changes") /\ UNCHANGED committed
    /\ UNCHANGED <<fs, trace, main, repo_urls, idx, cloned, has_tracker, changes_made,
                   attempted, workspaces, pushed, prs, failed>>

\* PushBranch as it would be if push_branch logged its exception without
\* raising it again
PushBranchSwallow ==
    /\ pc = "push"
    /\ \/ pushed' = pushed \cup {idx} /\ Returned("push_branch", "pr")
       \/ /\ calls' = Append(calls, <<"push_branch", "raised">>)
          /\ pc' = "pr"
          /\ UNCHANGED <<exc, pushed>>
    /\ UNCHANGED <<fs, trace, main, repo_urls, idx, cloned, has_tracker, changes_made,
                   committed, attempted, workspaces, prs, failed>>

\* push_branch: the call returns, and the branch is on the remote, or it
\* raises, and the remote is as it was
PushBranch ==
    /\ pc = "push"
    /\ \/ pushed' = pushed \cup {idx} /\ Returned("push_branch", "pr")
       \/ Raised("push_branch") /\ UNCHANGED pushed
    /\ UNCHANGED <<fs, trace, main, repo_urls, idx, cloned, has_tracker, changes_made,
                   committed, attempted, workspaces, prs, failed>>

CreatePullRequest ==
    /\ pc = "pr"
    /\ \/ prs' = prs \cup {idx} /\ Returned("create_pull_request", "exit")
       \/ Raised("create_pull_request") /\ UNCHANGED prs
    /\ UNCHANGED <<fs, trace, main, repo_urls, idx, cloned, has_tracker, changes_made,
                   committed, attempted, workspaces, pushed, failed>>

\* LeaveWorkspace as it would be if the directory were removed only at the
\* end of the try block
LeaveWorkspaceOnSuccess ==
    /\ pc = "exit"
    /\ workspaces' = IF exc THEN workspaces ELSE workspaces \ {idx}
    /\ fs' = IF exc THEN fs ELSE NoWorkspace
    /\ cloned' = NoWorkspace
    /\ has_tracker' = FALSE
    /\ changes_made' = FALSE
    /\ committed' = FALSE
    /\ calls' = <<>>
    /\ pc' = "handler"
    /\ UNCHANGED <<trace, main, repo_urls, idx, exc, attempted, pushed, prs, failed>>

\* the with block ends, by return or by exception: TemporaryDirectory removes
\* the directory and all it holds, and process_single_repository's locals go
LeaveWorkspace ==
    /\ pc = "exit"
    /\ workspaces' = workspaces \ {idx}
    /\ fs' = NoWorkspace
    /\ cloned' = NoWorkspace
    /\ has_tracker' = FALSE
    /\ changes_made' = FALSE
    /\ committed' = FALSE
    /\ calls' = <<>>
    /\ pc' = "handler"
    /\ UNCHANGED <<trace, main, repo_urls, idx, exc, attempted, pushed, prs, failed>>

\* NextRepository as it would be if process_repositories let the exception go
NextRepositoryReraise ==
    /\ pc = "handler"
    /\ pc' = IF exc THEN "aborted" ELSE "loop"
    /\ idx' = IF exc THEN idx ELSE idx + 1
    /\ UNCHANGED <<fs, trace, main, repo_urls, cloned, has_tracker, changes_made, committed,
                   exc, calls, attempted, workspaces, pushed, prs, failed>>

\* process_single_repository is left: process_repositories logs an exception
\* and goes on with the next URL
NextRepository ==
    /\ pc = "handler"
    /\ failed' = IF exc THEN failed \cup {idx} ELSE failed
    /\ exc' = FALSE
    /\ idx' = idx + 1
    /\ pc' = "loop"
    /\ UNCHANGED <<fs, trace, main, repo_urls, cloned, has_tracker, changes_made, committed,
                   calls, attempted, workspaces, pushed, prs>>

\* the for loop is over: process_repositories returns
ReturnFromBatch ==
    /\ pc = "loop"
    /\ idx > Len(repo_urls)
    /\ pc' = "done"
    /\ UNCHANGED <<fs, trace, main, repo_urls, idx, cloned, has_tracker, changes_made,
                   committed, exc, calls, attempted, workspaces, pushed, prs, failed>>

Next ==
    \/ BeginRepository
    \/ CloneRepository
    \/ CheckTrackerExists
    \/ CreateFeatureBranch
    \/ AddTrackerToRepo
    \/ CommitChanges
    \/ PushBranch
    \/ CreatePullRequest
    \/ LeaveWorkspace
    \/ NextRepository
    \/ ReturnFromBatch

Spec == Init /\ [][Next]_vars

----------------------------------------------------------------------------
(* Claims on the Orchestrator, under Spec *)

Ops(log) == {log[i][1] : i \in 1..Len(log)}

PatchSteps ==
    {"create_feature_branch", "add_dependency", "add_initialization", "commit_changes",
     "push_branch", "create_pull_request"}

InRepository == pc \in {"clone", "detect", "branch", "patch", "commit", "push", "pr", "exit"}

\* C1: the Detector runs exactly once per repository, right after the clone
\* and before any patch step; once it has answered True no patch step is
\* invoked for the repository, nothing reaches the remote and no file of the
\* workspace differs from the clone.
C1_DetectOnce ==
    /\ Cardinality({i \in 1..Len(calls) : calls[i][1] = "check_tracker_exists"}) <= 1
    /\ Len(calls) >= 2 =>
           (calls[1] = <<"clone_repository", "ok">> /\ calls[2][1] = "check_tracker_exists")
    /\ (pc \in {"branch", "patch", "commit", "push", "pr"}) =>
           "check_tracker_exists" \in Ops(calls)
    /\ (pc = "exit" /\ calls # << <<"clone_repository", "raised">> >>) =>
           "check_tracker_exists" \in Ops(calls)
    /\ (InRepository /\ pc # "clone" /\ pc # "detect" /\ check_tracker_exists(cloned)) =>
           /\ has_tracker
           /\ Ops(calls) \cap PatchSteps = {}
           /\ fs = cloned
           /\ idx \notin pushed \cup prs

\* C1 witness: the Detector has answered True for a cloned repository and
\* process_single_repository is about to return.
C1_Witness ==
    /\ pc = "exit"
    /\ has_tracker
    /\ calls = << <<"clone_repository", "ok">>, <<"check_tracker_exists", "ok">> >>
    /\ DOMAIN cloned # {}

\* C2: process_repositories hands every URL of the list to
\* process_single_repository exactly once and in list order, whatever raises
\* in whichever repository; no exception leaves the batch, which has gone
\* through the whole list when it returns.
C2_BatchIsolation ==
    /\ pc # "aborted"
    /\ Len(attempted) = (IF InRepository \/ pc = "handler" THEN idx ELSE idx - 1)
    /\ Len(attempted) <= Len(repo_urls)
    /\ attempted = SubSeq(repo_urls, 1, Len(attempted))
    /\ pc = "done" => (attempted = repo_urls /\ ~exc)
    /\ failed \subseteq 1..Len(attempted)
    /\ pc \in {"loop", "handler", "done"} \/ InRepository

\* C2 witness: a batch of three returned after the second repository raised
\* during its clone, the first and the third having got their pull request.
C2_Witness ==
    /\ pc = "done"
    /\ Len(repo_urls) = 3
    /\ failed = {2}
    /\ prs = {1, 3}

StepOrder ==
    <<"clone_repository", "check_tracker_exists", "create_feature_branch",
      "add_dependency", "add_initialization", "commit_changes", "push_branch",
      "create_pull_request">>

\* C3: the steps of one repository come in the order clone, detect, branch,
\* patch, commit, push, pull request, each only after every earlier one
\* returned; commit, push and pull request only if a patcher reported a
\* change; a pull request only on a pushed branch, so that a push that raised
\* leaves neither a branch on the remote nor a pull request.
C3_StepOrder ==
    /\ Len(calls) <= Len(StepOrder)
    /\ \A i \in 1..Len(calls) : calls[i][1] = StepOrder[i]
    /\ \A i \in 1..(Len(calls) - 1) : calls[i][2] = "ok"
    /\ (Ops(calls) \cap {"commit_changes", "push_branch", "create_pull_request"} # {}) =>
           /\ changes_made
           /\ add_dependency(cloned).ret
                  \/ add_initialization(add_dependency(cloned).fs).ret
    /\ "create_pull_request" \in Ops(calls) => idx \in pushed
    /\ (Len(calls) > 0 /\ calls[Len(calls)] = <<"push_branch", "raised">>) =>
           (idx \notin pushed /\ idx \notin prs)
    /\ prs \subseteq pushed

\* C3 witness: the commit returned and the push raised.
C3_Witness ==
    /\ pc = "exit"
    /\ Len(calls) = 7
    /\ calls[6] = <<"commit_changes", "ok">>
    /\ calls[7] = <<"push_branch", "raised">>
    /\ committed

\* C10: repositories are processed one at a time; the workspace of a
\* repository exists from the start of its processing to its end, on every
\* path, and is gone before the next repository starts and after the batch.
C10_OneWorkspace ==
    /\ Cardinality(workspaces) <= 1
    /\ InRepository => workspaces = {idx}
    /\ ~InRepository => (workspaces = {} /\ fs = NoWorkspace)

\* C10 witness: the batch has returned after one repository raised and
\* another got its pull request, and no workspace is left.
C10_Witness ==
    /\ pc = "done"
    /\ failed # {}
    /\ prs # {}
    /\ workspaces = {}

----------------------------------------------------------------------------
(* main: the command line, the credential, the repository list *)

URL_A == "https://github.com/org/a.git"
URL_B == "https://github.com/org/b.git"

\* a line of one token is that token's string
Str(line) == IF Len(line) = 1 THEN line[1] ELSE line

RECURSIVE UrlLines(_)
UrlLines(lines) ==
    IF Len(lines) = 0 THEN <<>>
    ELSE LET line == Strip(lines[1])
         IN  (IF line # <<>> /\ ~StartsWith(line, <<"#">>) THEN <<Str(line)>> ELSE <<>>)
                 \o UrlLines(Tail(lines))

\* files: the files that exist outside the workspaces, by name. A file that
\* does not open or does not decode makes the function return [].
get_repositories_from_file(files, file_path) ==
    IF file_path \notin DOMAIN files THEN <<>>
    ELSE IF ~Readable(files[file_path]) THEN <<>>
    ELSE UrlLines(SplitLines(files[file_path]))

RECURSIVE ActiveCloneUrls(_)
ActiveCloneUrls(repos) ==
    IF Len(repos) = 0 THEN <<>>
    ELSE (IF ~repos[1].archived /\ ~repos[1].fork THEN <<repos[1].clone_url>> ELSE <<>>)
             \o ActiveCloneUrls(Tail(repos))

\* orgs: the organizations the API knows, by name, each with its
\* repositories. An organization the API does not return makes the function
\* return [].
get_repositories_from_org(orgs, org_name) ==
    IF org_name \notin DOMAIN orgs THEN <<>>
    ELSE ActiveCloneUrls(orgs[org_name])

\* the input methods a command line gives: a '*' positional counts when it
\* took at least one string
GivenInputs(argv) ==
    {m \in {"repositories", "from_file", "from_org"} :
        \/ m = "repositories" /\ argv.repositories # <<>>
        \/ m = "from_file" /\ argv.from_file # None
        \/ m = "from_org" /\ argv.from_org # None}

\* parse_args with the required mutually exclusive group, then the check
\* that some input method holds a value: TRUE when parser.error ends the run
UsageError(argv) ==
    \/ Cardinality(GivenInputs(argv)) # 1
    \/ /\ argv.repositories = <<>>
       /\ argv.from_file \in {None, ""}
       /\ argv.from_org \in {None, ""}

\* the if / elif chain that picks the source of repo_urls
ResolvedUrls(argv, files, orgs) ==
    IF argv.repositories # <<>> THEN argv.repositories
    ELSE IF argv.from_file \notin {None, ""}
         THEN get_repositories_from_file(files, argv.from_file)
    ELSE IF argv.from_org \notin {None, ""}
         THEN get_repositories_from_org(orgs, argv.from_org)
    ELSE <<>>

\* the list files main may be pointed at: URLs among comments and blank
\* lines, comments only, and a file that stops decoding after its first URL
RepoFiles ==
    ("repos.txt" :> JoinLines(<< <<"#", "sp", "urls">>, <<>>, <<"sp", URL_A, "sp">>,
                                 <<URL_B>>, <<>> >>))
        @@ ("comments.txt" :> JoinLines(<< <<"#", URL_A>>, <<"tab">>, <<>> >>))
        @@ ("broken.txt" :> JoinLines(<< <<URL_A>>, <<"xff">>, <<>> >>))

Organizations ==
    ("my-organization" :>
         << [clone_url |-> URL_B, archived |-> TRUE, fork |-> FALSE],
            [clone_url |-> URL_A, archived |-> FALSE, fork |-> FALSE],
            [clone_url |-> URL_B, archived |-> FALSE, fork |-> TRUE] >>)
        @@ ("attic" :> << [clone_url |-> URL_A, archived |-> TRUE, fork |-> TRUE] >>)

CommandLines ==
    {[repositories |-> r, from_file |-> f, from_org |-> o] :
         r \in {<<>>, <<URL_A>>, <<URL_B, URL_A>>},
         f \in {None, "", "repos.txt", "comments.txt", "broken.txt", "missing.txt"},
         o \in {None, "", "my-organization", "attic", "nobody"}}

InitMain ==
    /\ main \in [environ : BOOLEAN, argv : CommandLines, outcome : {"running"}]
    /\ pc = "main"
    /\ repo_urls = <<>>
    /\ idx = 1
    /\ fs = NoWorkspace
    /\ trace = <<>>
    /\ cloned = NoWorkspace
    /\ has_tracker = FALSE
    /\ changes_made = FALSE
    /\ committed = FALSE
    /\ exc = FALSE
    /\ calls = <<>>
    /\ attempted = <<>>
    /\ workspaces = {}
    /\ pushed = {}
    /\ prs = {}
    /\ failed = {}

\* main is over
Exit(outcome) ==
    /\ main' = [main EXCEPT !.outcome = outcome]
    /\ pc' = "exited"
    /\ UNCHANGED <<fs, trace, repo_urls, idx, cloned, has_tracker, changes_made,
                   committed, exc, calls, attempted, workspaces, pushed, prs, failed>>

Continue(next) ==
    /\ pc' = next
    /\ UNCHANGED <<fs, trace, repo_urls, idx, cloned, has_tracker, changes_made,
                   committed, exc, calls, attempted, workspaces, pushed, prs, failed, main>>

\* the parser is built. 'repositories' is a positional with nargs='*' and no
\* default: the argparse of CPython 3.11 takes it for a required argument
\* and add_argument raises ValueError('mutually exclusive arguments must be
\* optional'); a later argparse accepts it.
BuildParser ==
    /\ pc = "main"
    /\ \/ Exit("ValueError")
       \/ Continue("parse_args")

\* parse_args and the validation below it: parser.error prints the usage
\* and raises SystemExit(2)
ParseArgs ==
    /\ pc = "parse_args"
    /\ IF UsageError(main.argv) THEN Exit("SystemExit(2)") ELSE Continue("environ")

\* os.environ["GITHUB_TOKEN"]
GetToken ==
    /\ pc = "environ"
    /\ IF ~main.environ THEN Exit("return 1") ELSE Continue("resolve")

\* the updater is constructed and the repository list resolved; an empty
\* list ends the run, any other list goes to process_repositories
ResolveRepositories ==
    /\ pc = "resolve"
    /\ LET urls == ResolvedUrls(main.argv, RepoFiles, Organizations)
       IN  IF urls = <<>> THEN Exit("return 1")
           ELSE /\ repo_urls' = urls
                /\ pc' = "loop"
                /\ UNCHANGED <<fs, trace, idx, cloned, has_tracker, changes_made, committed,
                               exc, calls, attempted, workspaces, pushed, prs, failed, main>>

\* process_repositories returned
ReturnFromMain ==
    /\ pc = "done"
    /\ main.outcome = "running"
    /\ Exit("return 0")

NextMain ==
    \/ BuildParser
    \/ ParseArgs
    \/ GetToken
    \/ ResolveRepositories
    \/ Next
    \/ ReturnFromMain

SpecMain == InitMain /\ [][NextMain]_vars

\* C11: main returns 1 when the credential variable is missing or the
\* resolved repository list is empty, and then no repository was cloned or
\* otherwise touched; every other run returns 0, whatever became of the
\* repositories.
C11_ExitCodes ==
    LET urls == ResolvedUrls(main.argv, RepoFiles, Organizations)
    IN  pc = "exited" =>
            IF ~main.environ \/ urls = <<>>
            THEN /\ main.outcome = "return 1"
                 /\ attempted = <<>>
                 /\ workspaces = {}
                 /\ pushed = {}
                 /\ prs = {}
            ELSE main.outcome = "return 0"

----------------------------------------------------------------------------
(* Claims on the lines the Initialization Patcher inserts *)

\* the leading whitespace of a line
Indent(line) == SubSeq(line, 1, Len(line) - Len(LStrip(line)))

Substantive(line) == ~IsBlank(line) /\ ~IsComment(line)

\* the lines that are a 'run as main program' guard
GuardLines(lines) == {g \in 1..Len(lines) : LStrip(lines[g]) = MAIN_GUARD}

\* the statements of the block below line g: the substantive lines indented
\* deeper than line g, up to the first substantive line that is not
BlockStatements(lines, g) ==
    LET deeper(k) == Len(Indent(lines[k])) > Len(Indent(lines[g]))
        after == {k \in (g + 1)..Len(lines) : Substantive(lines[k]) /\ ~deeper(k)}
        end == IF after = {} THEN Len(lines) + 1 ELSE MinOf(after)
    IN  {k \in (g + 1)..(end - 1) : Substantive(lines[k])}

\* a file without the tracker import whose one guard has one statement
SingleStatementGuard(content) ==
    /\ Readable(content)
    /\ ~ImportPattern(content)
    /\ ~HasImportText(content)
    /\ Cardinality(GuardLines(SplitLines(content))) = 1
    /\ \A g \in GuardLines(SplitLines(content)) :
           Cardinality(BlockStatements(SplitLines(content), g)) = 1

\* C12: for an entry file without the tracker import whose guard line is
\* followed by a single statement in its block, add_tracker_init_to_file
\* reports a change and the file it writes is the old file with two lines
\* added: the call, indented four spaces deeper than the guard, immediately
\* before that statement, and the import line somewhere else; the call is
\* nowhere else, neither in a main function nor at the end of the file.
C12_CallBeforeStatement ==
    \A n \in Calls("add_tracker_init_to_file") :
        LET path == trace[n].path
            old == SplitLines(trace[n].pre[path])
            new == SplitLines(trace[n].post[path])
            g == CHOOSE x \in GuardLines(old) : TRUE
            k == CHOOSE x \in BlockStatements(old, g) : TRUE
            withCall == ListInsert(old, k - 1, Indent(old[g]) \o Spaces(4) \o INIT_CALL)
        IN  SingleStatementGuard(trace[n].pre[path]) =>
                /\ trace[n].ret
                /\ SameExcept(trace[n].pre, trace[n].post, path)
                /\ \E i \in 0..Len(withCall) :
                       i # k /\ new = ListInsert(withCall, i, IMPORT_LINE)

\* a list without its lines a and b, a < b
Without(lines, a, b) ==
    SubSeq(lines, 1, a - 1) \o SubSeq(lines, a + 1, b - 1) \o SubSeq(lines, b + 1, Len(lines))

\* C13: whenever add_tracker_init_to_file changes a file, whatever its
\* layout, the file it writes is the old file plus one import line and one
\* initialization call (and, when the call is appended, the separator and
\* the marker comment before it), and the import line comes before the call.
C13_ImportBeforeCall ==
    \A n \in Calls("add_tracker_init_to_file") :
        LET path == trace[n].path
            old == SplitLines(trace[n].pre[path])
            new == SplitLines(trace[n].post[path])
        IN  trace[n].ret =>
                /\ CountLines(trace[n].post[path], IMPORT_LINE)
                       = CountLines(trace[n].pre[path], IMPORT_LINE) + 1
                /\ CountLines(trace[n].post[path], INIT_CALL)
                       = CountLines(trace[n].pre[path], INIT_CALL) + 1
                /\ \E a \in 1..Len(new), b \in 1..Len(new) :
                       /\ a < b
                       /\ new[a] = IMPORT_LINE
                       /\ Strip(new[b]) = INIT_CALL
                       /\ Without(new, a, b) \in {old, old \o << <<>>, INIT_COMMENT >>}

====
